---- MODULE Spec2Model ----
(***************************************************************************)
(* Fuel_Control_KS: a Telegram bot (bot.py) that records engine-hour and   *)
(* refuelling readings of equipment objects in a Google spreadsheet         *)
(* (sheets.py).                                                             *)
(*                                                                          *)
(* Numbers.  Every Python float of the program is a decimal number here,    *)
(* held as an integer count of thousandths (700.0 is 700000).  The sheet    *)
(* stores numbers through _to_str_dot, i.e. with two fractional digits, so  *)
(* a stored number is a multiple of 10.  The product delta_hours * usage    *)
(* and the fuel level computed from it are held in millionths, so that the  *)
(* arithmetic is exact.  NaN and the infinities, which float() also         *)
(* accepts, are outside the number domain of the model.                     *)
(*                                                                          *)
(* Concurrency.  The store is shared; a reading commit is four store calls  *)
(* (read all records, write EngineHours, write CurrentFuel, append log)     *)
(* and the calls of two users' commits may interleave.  Every other handler *)
(* is one step.  The store call of enter_engine_hours may fail.  The store  *)
(* calls of a commit succeed under Spec; CommitSpec runs the commits of     *)
(* users who face their keyboards with store calls that may fail.           *)
(*                                                                          *)
(* Reports.  report, shortage_report and single_report_show only read the   *)
(* store; they are run under ReportSpec, on sheets drawn from ReportSheets. *)
(* A text is held as its lines, a line as what it states and its number of  *)
(* characters.                                                              *)
(***************************************************************************)
EXTENDS Integers, Sequences, FiniteSets, TLC

\* ---------------------------------------------------------------- bounds
MaxRows == 3          \* data rows the Add Object workflow may fill
MaxLogs == 2          \* rows of the Logs sheet
MaxKb   == 2          \* live "full tank?" keyboards per user
MaxFlows == 2         \* workflows the users start, in total
MaxFails == 1         \* store calls of commits that fail, in total

\* ------------------------------------------------------------ the users
Users  == {1, 2}
ADMINS == {1}

\* --------------------------------------------------------------- inputs
\* A text message is a number (ok) or something float() rejects.
Num(n)  == [ok |-> TRUE, v |-> n]
BadText == [ok |-> FALSE, v |-> 0]

IdInputs    == {"US0001", "07"}
HoursInputs == {BadText, Num(690000), Num(710000), Num(720004)}
FuelInputs  == {BadText, Num(20000), Num(500000)}
CapInputs   == {BadText, Num(40000), Num(0 - 5000)}
UsageInputs == {BadText, Num(2000), Num(0 - 1000)}

\* ------------------------------------------------------- sheets.py helpers
Max(a, b) == IF a >= b THEN a ELSE b
Min(a, b) == IF a <= b THEN a ELSE b

\* n rounded to the nearest multiple of q, an exact tie going to the even
\* multiple (what the float formatting does to an exactly represented tie).
RoundTo(n, q) ==
    LET r    == n % q
        base == n - r
    IN  IF 2 * r < q THEN base
        ELSE IF 2 * r > q THEN base + q
        ELSE IF (base \div q) % 2 = 0 THEN base ELSE base + q

\* _to_str_dot(v) of a number in thousandths: two fractional digits.
ToStrDot(v) == RoundTo(v, 10)

\* _to_str_dot(v) of a number in millionths, as thousandths.
ToStrDotMicro(v) == RoundTo(v, 10000) \div 1000

\* _clamp without its lower bound
Clamp_NoFloor(v, lo, hi) == Min(hi, v)

\* _clamp
Clamp(v, lo, hi) == Max(lo, Min(hi, v))

\* the check left out, and the check with the comparison turned round
HoursRejected_Never(new_hours, prev_hours) == FALSE
HoursRejected_Flipped(new_hours, prev_hours) == new_hours > prev_hours

\* the check of update_object_fuel_with_calc: new_hours < prev_hours raises
HoursRejected(new_hours, prev_hours) == new_hours < prev_hours

\* the fuel level computed without the full-tank branch
NewCurrent_NoFullTank(prev_current, burned, fuel_add, capacity, full_tank) ==
    Clamp(prev_current * 1000 - burned + fuel_add * 1000, 0, capacity * 1000)

\* the fuel level of update_object_fuel_with_calc, in millionths; prev_current,
\* fuel_add and capacity come in thousandths, burned in millionths
NewCurrent(prev_current, burned, fuel_add, capacity, full_tank) ==
    IF full_tank
    THEN capacity * 1000
    ELSE Clamp(prev_current * 1000 - burned + fuel_add * 1000, 0, capacity * 1000)

\* the entry check left out
EntryRejected_Never(entered_hours, current_in_sheet) == FALSE

\* the check of enter_engine_hours: entered_hours < current_in_sheet re-prompts
EntryRejected(entered_hours, current_in_sheet) == entered_hours < current_in_sheet

\* ------------------------------------------------------------ the sheet
\* A data row of "Objects".  A cell that was never written reads as "" and
\* _to_float turns it into 0.
BlankRow == [id |-> "", hours |-> 0, cap |-> 0, fuel |-> 0, usage |-> 0]

\* get_all_records() numericises the cells: an identifier made of digits
\* comes back as a number, and str() of it drops the leading zeros.
Numericise(id) == IF id = "07" THEN "7" ELSE id

\* The row (1 = first data row) that the loops of sheets.py match, 0 if none.
SheetsFind(objs, id) ==
    LET hit == {r \in 1..Len(objs) : Numericise(objs[r].id) = id}
    IN  IF hit = {} THEN 0 ELSE CHOOSE r \in hit : \A s \in hit : r <= s

\* The row that the loops of bot.py over get_objects_for_report() match.
BotFind(objs, id) ==
    LET hit == {r \in 1..Len(objs) : objs[r].id = id}
    IN  IF hit = {} THEN 0 ELSE CHOOSE r \in hit : \A s \in hit : r <= s

\* ws.update_cell(idx, col, value): a row below the last one is created.
Pad(objs, r) ==
    [i \in 1..Max(Len(objs), r) |-> IF i <= Len(objs) THEN objs[i] ELSE BlankRow]

SetHours(objs, r, v) == [Pad(objs, r) EXCEPT ![r].hours = v]
SetFuel(objs, r, v)  == [Pad(objs, r) EXCEPT ![r].fuel = v]
SetCap(objs, r, v)   == [Pad(objs, r) EXCEPT ![r].cap = v]
SetUsage(objs, r, v) == [Pad(objs, r) EXCEPT ![r].usage = v]

\* ws.delete_rows(idx)
DeleteRow(objs, r) ==
    [i \in 1..(Len(objs) - 1) |-> IF i < r THEN objs[i] ELSE objs[i + 1]]

\* ----------------------------------------------------------------- state
VARIABLES
    objects,     \* the data rows of the "Objects" sheet
    logs,        \* the rows of the "Logs" sheet
    conv,        \* conv[u]: the state of u's conversation ("END" = none)
    user_data,   \* user_data[u]: context.user_data of u
    kb,          \* kb[u]: messages of u's chat that carry the full_yes/full_no keyboard
    pc,          \* pc[u]: where u's confirm_full_tank is
    cm,          \* cm[u]: the locals of u's update_object_fuel_with_calc
    flows,       \* workflows started so far
    last,        \* the step taken last: who, which handler, what was answered
    hours_for,   \* hours_for[u] (history): the object whose stored hours the
                 \* engine_hours of user_data[u] were checked against at entry
    applied,     \* applied[u] (history): a commit has applied the fuel amount
                 \* that user_data[u] holds
    fails,       \* store calls of commits that have failed
    sent         \* the text of the last report, and the messages it was sent as

vars == <<objects, logs, conv, user_data, kb, pc, cm, flows, last, hours_for, applied,
          fails, sent>>

NoId == "<none>"
NoNum == [set |-> FALSE, ok |-> TRUE, v |-> 0]
Val(t) == [set |-> TRUE, ok |-> t.ok, v |-> t.v]

EmptyUserData ==
    [object_id |-> NoId, engine_hours |-> NoNum, fuel_added |-> NoNum,
     new_obj_id |-> NoId, upd_obj_id |-> NoId, usage_obj_id |-> NoId]

NoCommit ==
    [row |-> 0, object_id |-> NoId, prev_hours |-> 0, capacity |-> 0,
     prev_current |-> 0, usage |-> 0, new_hours |-> 0, fuel_add |-> 0,
     delta_hours |-> 0, full_tank |-> FALSE, new_current |-> 0]

\* An event: the handler that ran for user uid, the kind of its answer, the
\* number the answer states (the minimum of a monotonicity error) and the
\* identifier it looked up.
EventOn(u, h, out, arg, id) ==
    [uid |-> u, handler |-> h, out |-> out, arg |-> arg, id |-> id]
Event(u, h, out, arg) == EventOn(u, h, out, arg, NoId)

\* No report was sent.
NoText == [text |-> << >>, msgs |-> << >>]

\* The sheet at the start: the object of the scenario of the specification
\* (US0001 at 700 h, a 300 l tank holding 50 l, 5 l/h) and an object as
\* add_object writes it, with an identifier made of digits.
Init ==
    /\ objects = << [id |-> "US0001", hours |-> 700000, cap |-> 300000,
                     fuel |-> 50000, usage |-> 5000],
                    [id |-> "07", hours |-> 0, cap |-> 40000,
                     fuel |-> 0, usage |-> 0] >>
    /\ logs = << >>
    /\ conv = [u \in Users |-> "END"]
    /\ user_data = [u \in Users |-> EmptyUserData]
    /\ kb = [u \in Users |-> 0]
    /\ pc = [u \in Users |-> "idle"]
    /\ cm = [u \in Users |-> NoCommit]
    /\ flows = 0
    /\ last = Event(0, "init", "none", 0)
    /\ hours_for = [u \in Users |-> NoId]
    /\ applied = [u \in Users |-> FALSE]
    /\ fails = 0
    /\ sent = NoText

\* on_error after a store call of handler h raised: the generic answer.  The
\* handler returned no state, so the conversation stays where it was, and
\* on_error touches neither the conversation nor user_data.
on_error(u, h) == Event(u, h, "store_error", 0)

\* is_admin that lets everyone in
is_admin_Everyone(uid) == TRUE

\* is_admin
is_admin(uid) == uid \in ADMINS

\* A handler of u runs when no other handler of u is running.
Ready(u) == pc[u] = "idle"

\* The ConversationHandlers: an entry point is taken by a user who is in no
\* conversation, a state's handler by a user who is in that state, and cancel
\* is the fallback of every conversation.
AtEntry(u)    == Ready(u) /\ conv[u] = "END"
AtState(u, s) == Ready(u) /\ conv[u] = s
InConversation(u) == conv[u] # "END"

\* ------------------------------------------------------- New Reading
new_data_start(u) ==
    /\ AtEntry(u) /\ flows < MaxFlows
    /\ flows' = flows + 1
    /\ IF Len(objects) = 0
       THEN /\ last' = Event(u, "new_data_start", "empty", 0)
            /\ UNCHANGED conv
       ELSE /\ conv' = [conv EXCEPT ![u] = "ENTER_OBJECT_ID"]
            /\ last' = Event(u, "new_data_start", "prompt", 0)
    /\ UNCHANGED <<objects, logs, user_data, kb, pc, cm, hours_for, applied, fails, sent>>

enter_object_id(u) ==
    /\ AtState(u, "ENTER_OBJECT_ID")
    /\ \E id \in IdInputs :
          user_data' = [user_data EXCEPT ![u].object_id = id]
    /\ conv' = [conv EXCEPT ![u] = "ENTER_ENGINE_HOURS"]
    /\ last' = Event(u, "enter_object_id", "prompt", 0)
    /\ UNCHANGED <<objects, logs, kb, pc, cm, flows, hours_for, applied, fails, sent>>

enter_engine_hours(u) ==
    /\ AtState(u, "ENTER_ENGINE_HOURS")
    /\ \E text \in HoursInputs, store_ok \in BOOLEAN :
         LET object_id == user_data[u].object_id
             r == BotFind(objects, object_id)
         IN  IF ~text.ok
             THEN /\ last' = Event(u, "enter_engine_hours", "reprompt_parse", 0)
                  /\ UNCHANGED <<conv, user_data, hours_for>>
             ELSE IF ~store_ok
             THEN \* get_objects_for_report() raises: on_error answers
                  /\ last' = on_error(u, "enter_engine_hours")
                  /\ UNCHANGED <<conv, user_data, hours_for>>
             ELSE IF r = 0
             THEN /\ conv' = [conv EXCEPT ![u] = "END"]
                  /\ last' = EventOn(u, "enter_engine_hours", "not_found", 0, object_id)
                  /\ UNCHANGED <<user_data, hours_for>>
             ELSE IF EntryRejected(text.v, objects[r].hours)
             THEN /\ last' = EventOn(u, "enter_engine_hours", "reprompt_mono",
                                     objects[r].hours, object_id)
                  /\ UNCHANGED <<conv, user_data, hours_for>>
             ELSE /\ user_data' = [user_data EXCEPT ![u].engine_hours = Val(text)]
                  /\ hours_for' = [hours_for EXCEPT ![u] = object_id]
                  /\ conv' = [conv EXCEPT ![u] = "ENTER_FUEL"]
                  /\ last' = EventOn(u, "enter_engine_hours", "prompt", 0, object_id)
    /\ UNCHANGED <<objects, logs, kb, pc, cm, flows, applied, fails, sent>>

enter_fuel(u) ==
    /\ AtState(u, "ENTER_FUEL")
    /\ kb[u] < MaxKb
    /\ \E text \in FuelInputs :
          user_data' = [user_data EXCEPT ![u].fuel_added = Val(text)]
    /\ kb' = [kb EXCEPT ![u] = @ + 1]
    /\ conv' = [conv EXCEPT ![u] = "END"]
    /\ last' = Event(u, "enter_fuel", "keyboard", 0)
    /\ applied' = [applied EXCEPT ![u] = FALSE]
    /\ UNCHANGED <<objects, logs, pc, cm, flows, hours_for, fails, sent>>

\* confirm_full_tank, up to the first store write.  The callback comes from a
\* keyboard that enter_fuel sent; edit_message_text removes that keyboard.
InFlight == Cardinality({v \in Users : pc[v] # "idle"})

confirm_full_tank(u) ==
    /\ Ready(u) /\ kb[u] > 0
    /\ \E full_tank \in BOOLEAN :
         LET d            == user_data[u]
             object_id    == d.object_id
             engine_hours == IF d.engine_hours.set THEN d.engine_hours.v ELSE 0
             fuel_added   == IF d.fuel_added.set THEN d.fuel_added.v ELSE 0
             \* update_object_fuel_with_calc
             r            == SheetsFind(objects, object_id)
             row          == IF r = 0 THEN BlankRow ELSE objects[r]
             prev_hours   == row.hours
             capacity     == row.cap
             prev_current == row.fuel
             usage        == row.usage
             new_hours    == engine_hours
             fuel_add     == fuel_added
             delta_hours  == Max(0, new_hours - prev_hours)
             burned       == delta_hours * usage
             new_current  == NewCurrent(prev_current, burned, fuel_add, capacity,
                                        full_tank)
         IN  IF d.fuel_added.set /\ ~d.fuel_added.ok
             THEN \* float() raises outside the try: on_error answers
                  /\ last' = Event(u, "confirm_full_tank", "generic_error", 0)
                  /\ UNCHANGED <<kb, pc, cm>>
             ELSE IF r = 0
             THEN /\ kb' = [kb EXCEPT ![u] = @ - 1]
                  /\ last' = EventOn(u, "confirm_full_tank", "not_found", 0, object_id)
                  /\ UNCHANGED <<pc, cm>>
             ELSE IF HoursRejected(new_hours, prev_hours)
             THEN /\ kb' = [kb EXCEPT ![u] = @ - 1]
                  /\ last' = EventOn(u, "confirm_full_tank", "mono_error", prev_hours,
                                     object_id)
                  /\ UNCHANGED <<pc, cm>>
             ELSE /\ Len(logs) + InFlight < MaxLogs
                  /\ pc' = [pc EXCEPT ![u] = "write_hours"]
                  /\ cm' = [cm EXCEPT ![u] =
                              [row |-> r, object_id |-> object_id,
                               prev_hours |-> prev_hours, capacity |-> capacity,
                               prev_current |-> prev_current, usage |-> usage,
                               new_hours |-> new_hours, fuel_add |-> fuel_add,
                               delta_hours |-> delta_hours, full_tank |-> full_tank,
                               new_current |-> new_current]]
                  /\ last' = EventOn(u, "confirm_full_tank", "read", 0, object_id)
                  /\ UNCHANGED kb
    /\ UNCHANGED <<objects, logs, conv, user_data, flows, hours_for, applied, fails, sent>>

\* ws.update_cell(idx, 2, _to_str_dot(new_hours))
write_hours(u) ==
    /\ pc[u] = "write_hours"
    /\ objects' = SetHours(objects, cm[u].row, ToStrDot(cm[u].new_hours))
    /\ pc' = [pc EXCEPT ![u] = "write_fuel"]
    /\ last' = Event(u, "confirm_full_tank", "wrote_hours", 0)
    /\ UNCHANGED <<logs, conv, user_data, kb, cm, flows, hours_for, applied, fails, sent>>

\* ws.update_cell(idx, 4, _to_str_dot(new_current))
write_fuel(u) ==
    /\ pc[u] = "write_fuel"
    /\ objects' = SetFuel(objects, cm[u].row, ToStrDotMicro(cm[u].new_current))
    /\ pc' = [pc EXCEPT ![u] = "append_log"]
    /\ last' = Event(u, "confirm_full_tank", "wrote_fuel", 0)
    /\ UNCHANGED <<logs, conv, user_data, kb, cm, flows, hours_for, applied, fails, sent>>

\* a log row that states the new hours as the previous ones
LogRow_PrevAsNew(u, c) ==
    [object_id |-> c.object_id,
     prev_hours |-> ToStrDot(c.new_hours),
     new_hours |-> ToStrDot(c.new_hours),
     hours_delta |-> ToStrDot(c.delta_hours),
     fuel_added |-> ToStrDot(c.fuel_add),
     full_tank |-> c.full_tank,
     calculated_current_fuel |-> ToStrDotMicro(c.new_current),
     user_id |-> u]

\* append_log(...), then the "saved" answer of confirm_full_tank
LogRow(u, c) ==
    [object_id |-> c.object_id,
     prev_hours |-> ToStrDot(c.prev_hours),
     new_hours |-> ToStrDot(c.new_hours),
     hours_delta |-> ToStrDot(c.delta_hours),
     fuel_added |-> ToStrDot(c.fuel_add),
     full_tank |-> c.full_tank,
     calculated_current_fuel |-> ToStrDotMicro(c.new_current),
     user_id |-> u]

append_log(u) ==
    /\ pc[u] = "append_log"
    /\ logs' = Append(logs, LogRow(u, cm[u]))
    /\ pc' = [pc EXCEPT ![u] = "idle"]
    /\ cm' = [cm EXCEPT ![u] = NoCommit]
    /\ kb' = [kb EXCEPT ![u] = @ - 1]
    /\ last' = Event(u, "confirm_full_tank", "saved", 0)
    /\ applied' = [applied EXCEPT ![u] = TRUE]
    /\ UNCHANGED <<objects, conv, user_data, flows, hours_for, fails, sent>>

\* ------------------------------------------------------- Single Report
single_report_start(u) ==
    /\ AtEntry(u) /\ flows < MaxFlows
    /\ flows' = flows + 1
    /\ IF Len(objects) = 0
       THEN /\ last' = Event(u, "single_report_start", "empty", 0)
            /\ UNCHANGED conv
       ELSE /\ conv' = [conv EXCEPT ![u] = "ENTER_REPORT_OBJECT_ID"]
            /\ last' = Event(u, "single_report_start", "prompt", 0)
    /\ UNCHANGED <<objects, logs, user_data, kb, pc, cm, hours_for, applied, fails, sent>>

\* ------------------------------------------------------- Admin: Add Object
\* The entry of an admin workflow: the is_admin gate of the four *_start handlers.
AdminStart(u, h, state) ==
    /\ AtEntry(u) /\ flows < MaxFlows
    /\ flows' = flows + 1
    /\ IF ~is_admin(u)
       THEN /\ last' = Event(u, h, "denied", 0)
            /\ UNCHANGED conv
       ELSE /\ conv' = [conv EXCEPT ![u] = state]
            /\ last' = Event(u, h, "prompt", 0)
    /\ UNCHANGED <<objects, logs, user_data, kb, pc, cm, hours_for, applied, fails, sent>>

add_object_start(u) == AdminStart(u, "add_object_start", "ENTER_NEW_OBJECT_ID")

enter_new_object_id(u) ==
    /\ AtState(u, "ENTER_NEW_OBJECT_ID")
    /\ \E id \in IdInputs :
          user_data' = [user_data EXCEPT ![u].new_obj_id = id]
    /\ conv' = [conv EXCEPT ![u] = "ENTER_NEW_CAPACITY"]
    /\ last' = Event(u, "enter_new_object_id", "prompt", 0)
    /\ UNCHANGED <<objects, logs, kb, pc, cm, flows, hours_for, applied, fails, sent>>

\* sheets.add_object: one appended row, hours and fuel 0
add_object(objs, object_id, capacity, usage_per_hour) ==
    Append(objs, [id |-> object_id, hours |-> ToStrDot(0), cap |-> ToStrDot(capacity),
                  fuel |-> ToStrDot(0), usage |-> ToStrDot(usage_per_hour)])

save_new_object(u) ==
    /\ AtState(u, "ENTER_NEW_CAPACITY")
    /\ \E text \in CapInputs :
         IF ~is_admin(u)
         THEN /\ last' = Event(u, "save_new_object", "denied", 0)
              /\ UNCHANGED objects
         ELSE IF ~text.ok
         THEN /\ last' = Event(u, "save_new_object", "error", 0)
              /\ UNCHANGED objects
         ELSE /\ Len(objects) < MaxRows
              /\ objects' = add_object(objects, user_data[u].new_obj_id, text.v, 0)
              /\ last' = EventOn(u, "save_new_object", "added", 0,
                                 user_data[u].new_obj_id)
    /\ conv' = [conv EXCEPT ![u] = "END"]
    /\ UNCHANGED <<logs, user_data, kb, pc, cm, flows, hours_for, applied, fails, sent>>

\* ------------------------------------------------------- Admin: Delete Object
delete_object_start(u) == AdminStart(u, "delete_object_start", "ENTER_DELETE_OBJECT_ID")

\* delete_object that removes the first row when none matches
delete_object_Fallback(objs, object_id) ==
    LET r == SheetsFind(objs, object_id)
    IN  IF r # 0 THEN DeleteRow(objs, r)
        ELSE IF Len(objs) > 0 THEN DeleteRow(objs, 1) ELSE objs

\* sheets.delete_object
delete_object(objs, object_id) ==
    LET r == SheetsFind(objs, object_id)
    IN  IF r = 0 THEN objs ELSE DeleteRow(objs, r)

confirm_delete_object(u) ==
    /\ AtState(u, "ENTER_DELETE_OBJECT_ID")
    /\ \E obj_id \in IdInputs :
         IF ~is_admin(u)
         THEN /\ last' = Event(u, "confirm_delete_object", "denied", 0)
              /\ UNCHANGED objects
         ELSE /\ objects' = delete_object(objects, obj_id)
              /\ last' = EventOn(u, "confirm_delete_object",
                                 IF SheetsFind(objects, obj_id) = 0
                                 THEN "not_found" ELSE "deleted", 0, obj_id)
    /\ conv' = [conv EXCEPT ![u] = "END"]
    /\ UNCHANGED <<logs, user_data, kb, pc, cm, flows, hours_for, applied, fails, sent>>

\* ------------------------------------------------------- Admin: Change Capacity
update_capacity_start(u) == AdminStart(u, "update_capacity_start", "ENTER_UPDATE_OBJECT_ID")

enter_update_object_id(u) ==
    /\ AtState(u, "ENTER_UPDATE_OBJECT_ID")
    /\ \E id \in IdInputs :
          user_data' = [user_data EXCEPT ![u].upd_obj_id = id]
    /\ conv' = [conv EXCEPT ![u] = "ENTER_UPDATE_CAPACITY"]
    /\ last' = Event(u, "enter_update_object_id", "prompt", 0)
    /\ UNCHANGED <<objects, logs, kb, pc, cm, flows, hours_for, applied, fails, sent>>

\* sheets.update_capacity
update_capacity(objs, object_id, new_capacity) ==
    LET r == SheetsFind(objs, object_id)
    IN  IF r = 0 THEN objs ELSE SetCap(objs, r, ToStrDot(new_capacity))

save_update_capacity(u) ==
    /\ AtState(u, "ENTER_UPDATE_CAPACITY")
    /\ \E text \in CapInputs :
         IF ~is_admin(u)
         THEN /\ last' = Event(u, "save_update_capacity", "denied", 0)
              /\ UNCHANGED objects
         ELSE IF ~text.ok
         THEN /\ last' = Event(u, "save_update_capacity", "error", 0)
              /\ UNCHANGED objects
         ELSE /\ objects' = update_capacity(objects, user_data[u].upd_obj_id, text.v)
              /\ last' = EventOn(u, "save_update_capacity",
                                 IF SheetsFind(objects, user_data[u].upd_obj_id) = 0
                                 THEN "not_found" ELSE "updated", 0,
                                 user_data[u].upd_obj_id)
    /\ conv' = [conv EXCEPT ![u] = "END"]
    /\ UNCHANGED <<logs, user_data, kb, pc, cm, flows, hours_for, applied, fails, sent>>

\* ------------------------------------------------------- Admin: Change Usage
update_usage_start(u) == AdminStart(u, "update_usage_start", "ENTER_UPDATE_USAGE_OBJECT_ID")

enter_update_usage_object(u) ==
    /\ AtState(u, "ENTER_UPDATE_USAGE_OBJECT_ID")
    /\ \E id \in IdInputs :
          user_data' = [user_data EXCEPT ![u].usage_obj_id = id]
    /\ conv' = [conv EXCEPT ![u] = "ENTER_UPDATE_USAGE_VALUE"]
    /\ last' = Event(u, "enter_update_usage_object", "prompt", 0)
    /\ UNCHANGED <<objects, logs, kb, pc, cm, flows, hours_for, applied, fails, sent>>

\* sheets.update_usage
update_usage(objs, object_id, new_usage_per_hour) ==
    LET r == SheetsFind(objs, object_id)
    IN  IF r = 0 THEN objs ELSE SetUsage(objs, r, ToStrDot(new_usage_per_hour))

save_update_usage(u) ==
    /\ AtState(u, "ENTER_UPDATE_USAGE_VALUE")
    /\ \E text \in UsageInputs :
         IF ~is_admin(u)
         THEN /\ last' = Event(u, "save_update_usage", "denied", 0)
              /\ UNCHANGED objects
         ELSE IF ~text.ok
         THEN /\ last' = Event(u, "save_update_usage", "error", 0)
              /\ UNCHANGED objects
         ELSE /\ objects' = update_usage(objects, user_data[u].usage_obj_id, text.v)
              /\ last' = EventOn(u, "save_update_usage",
                                 IF SheetsFind(objects, user_data[u].usage_obj_id) = 0
                                 THEN "not_found" ELSE "updated", 0,
                                 user_data[u].usage_obj_id)
    /\ conv' = [conv EXCEPT ![u] = "END"]
    /\ UNCHANGED <<logs, user_data, kb, pc, cm, flows, hours_for, applied, fails, sent>>

\* ------------------------------------------------------- Cancel
\* The cancel signal.  The handler runs as the fallback of a conversation; a
\* user who is in no conversation gets no answer.
cancel(u) ==
    /\ Ready(u)
    /\ IF InConversation(u)
       THEN /\ conv' = [conv EXCEPT ![u] = "END"]
            /\ last' = Event(u, "cancel", "cancelled", 0)
       ELSE /\ last' = Event(u, "cancel", "ignored", 0)
            /\ UNCHANGED conv
    /\ UNCHANGED <<objects, logs, user_data, kb, pc, cm, flows, hours_for, applied, fails,
                   sent>>

\* ------------------------------------------------------- Reports
\* A text is the sequence of its lines (text.split("\n")); a line is what it
\* states and the number of its characters; a message is the sequence of the
\* lines of its payload ("\n".join(chunk)).
Line(kind, obj, vals, n) == [kind |-> kind, obj |-> obj, vals |-> vals, len |-> n]

\* Identifiers of 1949 and of 3950 characters (a Telegram text holds up to 4096).
MidId == "MM..M"
LongId == "XX..X"

\* len(obj)
IdLen(id) ==
    CASE id = "07" -> 2
      [] id = "7" -> 1
      [] id = "US0001" -> 6
      [] id = MidId -> 1949
      [] id = LongId -> 3950
      [] OTHER -> 0

\* The place of an identifier in the order of Python's str comparison.
IdRank(id) ==
    CASE id = "" -> 0
      [] id = "07" -> 1
      [] id = "7" -> 2
      [] id = MidId -> 3
      [] id = "US0001" -> 4
      [] id = LongId -> 5
      [] OTHER -> 6

RECURSIVE IntDigits(_)
IntDigits(n) == IF n < 10 THEN 1 ELSE 1 + IntDigits(n \div 10)

Abs(n) == IF n < 0 THEN 0 - n ELSE n

\* f"{v:.1f}" and f"{v:.2f}": the number stated, and the characters it takes
Fmt1(v) == RoundTo(v, 100)
Fmt2(v) == RoundTo(v, 10)
Fmt1Len(v) == (IF v < 0 THEN 1 ELSE 0) + IntDigits(Abs(Fmt1(v)) \div 1000) + 2
Fmt2Len(v) == (IF v < 0 THEN 1 ELSE 0) + IntDigits(Abs(Fmt2(v)) \div 1000) + 3

\* cur_disp without the min against the capacity
CurDisp_NoClamp(row) == row.fuel

\* cur_disp and need of the three report handlers
CurDisp(row) == IF row.cap > 0 THEN Min(row.fuel, row.cap) ELSE row.fuel
Need(row) == Max(0, row.cap - CurDisp(row))

TELEGRAM_MAX_LEN == 3900

\* len("\n".join(chunk))
RECURSIVE SumLen(_)
SumLen(chunk) ==
    IF chunk = << >> THEN 0 ELSE chunk[1].len + SumLen(Tail(chunk))
PayloadLen(chunk) == SumLen(chunk) + Len(chunk) - 1

\* _flush of send_long_text: an empty chunk sends nothing
Flush(msgs, chunk) == IF chunk = << >> THEN msgs ELSE Append(msgs, chunk)

\* the loop of send_long_text over lines[i..], then the last _flush
RECURSIVE SendLoop(_, _, _, _, _)
SendLoop(lines, i, chunk, length, msgs) ==
    IF i > Len(lines)
    THEN Flush(msgs, chunk)
    ELSE LET add_len == lines[i].len + 1
         IN  IF length + add_len > TELEGRAM_MAX_LEN
             THEN SendLoop(lines, i + 1, <<lines[i]>>, add_len, Flush(msgs, chunk))
             ELSE SendLoop(lines, i + 1, Append(chunk, lines[i]), length + add_len, msgs)

send_long_text(lines) == SendLoop(lines, 1, << >>, 0, << >>)

\* rows.sort(key=lambda x: x[0]): a stable sort by identifier
InsertRow(sorted, x) ==
    LET k == Cardinality({i \in 1..Len(sorted) : IdRank(sorted[i].obj) <= IdRank(x.obj)})
    IN  SubSeq(sorted, 1, k) \o <<x>> \o SubSeq(sorted, k + 1, Len(sorted))

RECURSIVE SortRows(_)
SortRows(rows) ==
    IF rows = << >> THEN << >>
    ELSE InsertRow(SortRows(SubSeq(rows, 1, Len(rows) - 1)), rows[Len(rows)])

\* the rows of shortage_report in store order: (obj, need) where need > 0
RECURSIVE NeedyRows(_)
NeedyRows(objs) ==
    IF objs = << >> THEN << >>
    ELSE LET o == objs[1]
         IN  (IF o.id # "" /\ Need(o) > 0
              THEN << [obj |-> o.id, need |-> Need(o)] >> ELSE << >>)
             \o NeedyRows(Tail(objs))

\* the rows of shortage_report left in store order
ShortageRows_Unsorted(objs) == NeedyRows(objs)

\* the rows of shortage_report as it lists them
ShortageRows(objs) == SortRows(NeedyRows(objs))

RECURSIVE TotalNeed(_)
TotalNeed(rows) == IF rows = << >> THEN 0 ELSE rows[1].need + TotalNeed(Tail(rows))

\* the text of shortage_report
ShortageText(rows) ==
    << Line("head", "", << >>, 15), Line("blank", "", << >>, 0) >>
    \o [k \in 1..Len(rows) |->
          Line("row", rows[k].obj, << Fmt1(rows[k].need) >>,
               IdLen(rows[k].obj) + 3 + Fmt1Len(rows[k].need))]
    \o << Line("blank", "", << >>, 0),
          Line("total", "", << Fmt1(TotalNeed(rows)) >>, 16 + Fmt1Len(TotalNeed(rows))) >>

shortage_report(u) ==
    /\ AtEntry(u)
    /\ LET rows == ShortageRows(objects)
           text == ShortageText(rows)
       IN  IF Len(objects) = 0
           THEN /\ last' = Event(u, "shortage_report", "empty", 0)
                /\ sent' = NoText
           ELSE IF rows = << >>
           THEN /\ last' = Event(u, "shortage_report", "all_full", 0)
                /\ sent' = NoText
           ELSE /\ last' = Event(u, "shortage_report", "report", 0)
                /\ sent' = [text |-> text, msgs |-> send_long_text(text)]
    /\ UNCHANGED <<objects, logs, conv, user_data, kb, pc, cm, flows, hours_for, applied,
                   fails>>

\* the lines of one object in the text of report
ReportBlock(o) ==
    << Line("obj", o.id, << >>, 2 + IdLen(o.id)),
       Line("hours", o.id, << o.hours >>, 18 + Fmt2Len(o.hours)),
       Line("fuel", o.id, << Fmt1(CurDisp(o)), Fmt1(o.cap) >>,
            19 + Fmt1Len(CurDisp(o)) + Fmt1Len(o.cap)),
       Line("need", o.id, << Fmt1(Need(o)) >>, 19 + Fmt1Len(Need(o))),
       Line("usage", o.id, << Fmt2(o.usage) >>, 20 + Fmt2Len(o.usage)),
       Line("blank", "", << >>, 0) >>

RECURSIVE ReportBlocks(_)
ReportBlocks(objs) ==
    IF objs = << >> THEN << >> ELSE ReportBlock(objs[1]) \o ReportBlocks(Tail(objs))

\* the text of report
ReportText(objs) ==
    << Line("head", "", << >>, 21), Line("blank", "", << >>, 0) >> \o ReportBlocks(objs)

report(u) ==
    /\ AtEntry(u)
    /\ IF Len(objects) = 0
       THEN /\ last' = Event(u, "report", "empty", 0)
            /\ sent' = NoText
       ELSE /\ last' = Event(u, "report", "report", 0)
            /\ sent' = [text |-> ReportText(objects),
                        msgs |-> send_long_text(ReportText(objects))]
    /\ UNCHANGED <<objects, logs, conv, user_data, kb, pc, cm, flows, hours_for, applied,
                   fails>>

\* the text of single_report_show: the lines of the object found, under the
\* identifier as it was typed
SingleReportText(obj_id, found) ==
    << Line("obj", obj_id, << >>, 2 + IdLen(obj_id)),
       Line("hours", obj_id, << found.hours >>, 18 + Fmt2Len(found.hours)),
       Line("fuel", obj_id, << Fmt1(CurDisp(found)), Fmt1(found.cap) >>,
            19 + Fmt1Len(CurDisp(found)) + Fmt1Len(found.cap)),
       Line("need", obj_id, << Fmt1(Need(found)) >>, 19 + Fmt1Len(Need(found))),
       Line("usage", obj_id, << Fmt2(found.usage) >>, 20 + Fmt2Len(found.usage)) >>

single_report_show(u) ==
    /\ AtState(u, "ENTER_REPORT_OBJECT_ID")
    /\ \E obj_id \in IdInputs :
          LET r == BotFind(objects, obj_id)
          IN  IF r = 0
              THEN /\ last' = EventOn(u, "single_report_show", "not_found", 0, obj_id)
                   /\ sent' = NoText
              ELSE /\ last' = EventOn(u, "single_report_show", "report", 0, obj_id)
                   /\ sent' = [text |-> SingleReportText(obj_id, objects[r]),
                               msgs |-> << SingleReportText(obj_id, objects[r]) >>]
    /\ conv' = [conv EXCEPT ![u] = "END"]
    /\ UNCHANGED <<objects, logs, user_data, kb, pc, cm, flows, hours_for, applied, fails>>

\* The sheets the reports are run on: up to MaxRows rows, in any order and
\* with repetition, of objects as the workflows leave them (levels with
\* cents, a level above a lowered capacity, a capacity below zero, an
\* identifier of any length).
ReportRow(i, c, f) == [id |-> i, hours |-> 700000, cap |-> c, fuel |-> f, usage |-> 5000]
ReportRows ==
    { ReportRow(MidId, 300000, 49960),
      ReportRow("07", 40000, 39960),
      ReportRow("07", 40000, 50000),
      ReportRow(LongId, 300000, 49960),
      ReportRow("US0001", 0 - 5000, 50000) }
ReportSheets == UNION { [1..n -> ReportRows] : n \in 0..MaxRows }

ReportInit ==
    /\ objects \in ReportSheets
    /\ logs = << >>
    /\ conv \in [Users -> IF Len(objects) = 0 THEN {"END"}
                           ELSE {"END", "ENTER_REPORT_OBJECT_ID"}]
    /\ user_data = [u \in Users |-> EmptyUserData]
    /\ kb = [u \in Users |-> 0]
    /\ pc = [u \in Users |-> "idle"]
    /\ cm = [u \in Users |-> NoCommit]
    /\ flows = 0
    /\ last = Event(0, "init", "none", 0)
    /\ hours_for = [u \in Users |-> NoId]
    /\ applied = [u \in Users |-> FALSE]
    /\ fails = 0
    /\ sent = NoText

ReportNext ==
    \E u \in Users :
        \/ report(u)
        \/ shortage_report(u)
        \/ single_report_show(u)

ReportSpec == ReportInit /\ [][ReportNext]_vars

\* ------------------------------------------------------- the program
Next ==
    \E u \in Users :
       \/ new_data_start(u)
       \/ enter_object_id(u)
       \/ enter_engine_hours(u)
       \/ enter_fuel(u)
       \/ confirm_full_tank(u)
       \/ write_hours(u)
       \/ write_fuel(u)
       \/ append_log(u)
       \/ single_report_start(u)
       \/ single_report_show(u)
       \/ add_object_start(u)
       \/ enter_new_object_id(u)
       \/ save_new_object(u)
       \/ delete_object_start(u)
       \/ confirm_delete_object(u)
       \/ update_capacity_start(u)
       \/ enter_update_object_id(u)
       \/ save_update_capacity(u)
       \/ update_usage_start(u)
       \/ enter_update_usage_object(u)
       \/ save_update_usage(u)
       \/ cancel(u)

Spec == Init /\ [][Next]_vars

\* ------------------------------------------------------- store failures
\* A store call of a commit raises (gspread raises an APIError, which is not
\* a ValueError): the exception leaves update_object_fuel_with_calc and
\* confirm_full_tank, on_error answers, and the message with the keyboard is
\* not edited.
commit_fails(u) ==
    /\ pc[u] \in {"write_hours", "write_fuel", "append_log"}
    /\ fails < MaxFails
    /\ fails' = fails + 1
    /\ pc' = [pc EXCEPT ![u] = "idle"]
    /\ cm' = [cm EXCEPT ![u] = NoCommit]
    /\ last' = on_error(u, "confirm_full_tank")
    /\ UNCHANGED <<objects, logs, conv, user_data, kb, flows, hours_for, applied, sent>>

\* What enter_fuel leaves in user_data for a reading of US0001: hours that
\* enter_engine_hours let through, and the fuel text as it was typed.
ReadingSessions ==
    { [EmptyUserData EXCEPT !.object_id = "US0001",
                            !.engine_hours = Val(h), !.fuel_added = Val(f)] :
        h \in {x \in HoursInputs : x.ok /\ x.v >= 700000}, f \in FuelInputs }

\* The users have finished New Reading workflows and face their keyboards.
CommitInit ==
    /\ objects = << [id |-> "US0001", hours |-> 700000, cap |-> 300000,
                     fuel |-> 50000, usage |-> 5000],
                    [id |-> "07", hours |-> 0, cap |-> 40000, fuel |-> 0, usage |-> 0] >>
    /\ logs = << >>
    /\ conv = [u \in Users |-> "END"]
    /\ user_data \in [Users -> {EmptyUserData} \cup ReadingSessions]
    /\ kb = [u \in Users |-> IF user_data[u] = EmptyUserData THEN 0 ELSE 1]
    /\ pc = [u \in Users |-> "idle"]
    /\ cm = [u \in Users |-> NoCommit]
    /\ flows = Cardinality({u \in Users : user_data[u] # EmptyUserData})
    /\ last = Event(0, "init", "none", 0)
    /\ hours_for = [u \in Users |-> user_data[u].object_id]
    /\ applied = [u \in Users |-> FALSE]
    /\ fails = 0
    /\ sent = NoText

CommitNext ==
    \E u \in Users :
        \/ confirm_full_tank(u)
        \/ write_hours(u)
        \/ write_fuel(u)
        \/ append_log(u)
        \/ commit_fails(u)

CommitSpec == CommitInit /\ [][CommitNext]_vars

\* ======================================================================
\* Claims
\* ======================================================================
\* The step just taken is the first part of u's confirm_full_tank.
ConfirmStep(u) ==
    /\ pc[u] = "idle"
    /\ last'.uid = u /\ last'.handler = "confirm_full_tank"
    /\ last'.out \in {"generic_error", "not_found", "mono_error", "read"}

\* What confirm_full_tank passes to update_object_fuel_with_calc.
SubmittedHours(u) ==
    IF user_data[u].engine_hours.set THEN user_data[u].engine_hours.v ELSE 0
FuelParses(u) == user_data[u].fuel_added.set => user_data[u].fuel_added.ok

\* C1: after a successful update the stored CurrentFuel of the object lies
\* between 0 and the FuelCapacity the update read.
C1_FuelWithinCapacity ==
    last.out = "wrote_fuel" =>
        LET c == cm[last.uid]
        IN  /\ 0 <= objects[c.row].fuel
            /\ objects[c.row].fuel <= c.capacity

\* C2: an update whose new hours are below the stored EngineHours of the
\* object it finds is rejected with the monotonicity error, which states the
\* stored value as the minimum; nothing is written and no log row is appended.
C2_LowerHoursRejected ==
    [][\A u \in Users :
          LET r == SheetsFind(objects, user_data[u].object_id)
          IN  (/\ ConfirmStep(u) /\ FuelParses(u)
               /\ r # 0
               /\ SubmittedHours(u) < objects[r].hours)
              => /\ last'.out = "mono_error"
                 /\ last'.arg = objects[r].hours
                 /\ objects' = objects /\ logs' = logs
                 /\ pc'[u] = "idle"]_vars

\* the scenario of C2: 690 submitted against the stored 700
C2_Witness ==
    /\ last.handler = "confirm_full_tank" /\ last.out = "mono_error"
    /\ last.arg = 700000
    /\ user_data[last.uid].engine_hours.v = 690000

\* The step just taken is u's write of EngineHours / of CurrentFuel.
WroteHours(u) == pc[u] = "write_hours" /\ pc'[u] = "write_fuel"

\* The row u's commit read is still as it was read: same object, same hours.
RowAsRead(u) ==
    /\ cm[u].row <= Len(objects)
    /\ Numericise(objects[cm[u].row].id) = cm[u].object_id
    /\ objects[cm[u].row].hours = cm[u].prev_hours

\* C3 as claimed: no write of EngineHours lowers the value the row holds,
\* whatever the interleaving of the commits.
C3_HoursNeverDecrease ==
    [][\A u \in Users :
          (WroteHours(u) /\ cm[u].row <= Len(objects))
          => objects'[cm[u].row].hours >= objects[cm[u].row].hours]_vars

\* C3 amended: a commit whose row was not changed between its read and its
\* write of EngineHours does not lower the EngineHours of the object.
C3_HoursNeverDecreaseUninterleaved ==
    [][\A u \in Users :
          (WroteHours(u) /\ RowAsRead(u))
          => objects'[cm[u].row].hours >= objects[cm[u].row].hours]_vars

\* a commit raised the EngineHours of the row it read
C3_Witness ==
    /\ last.out = "wrote_hours"
    /\ LET c == cm[last.uid]
       IN  /\ objects[c.row].id = "US0001"
           /\ c.prev_hours = 700000
           /\ objects[c.row].hours = 720000

\* v (thousandths) is x (thousandths) written with two fractional digits
IsTwoDigitsOf(v, x) == v % 10 = 0 /\ 2 * (v - x) <= 10 /\ 2 * (x - v) <= 10

\* v (thousandths) is x (millionths) written with two fractional digits
IsTwoDigitsOfMicro(v, x) ==
    v % 10 = 0 /\ 2 * (v * 1000 - x) <= 10000 /\ 2 * (x - v * 1000) <= 10000

\* C4 as claimed: a full-tank reading stores the new hours themselves and the
\* FuelCapacity it read.
C4_FullTankExact ==
    LET c == cm[last.uid]
    IN  /\ (last.out = "wrote_hours" /\ c.full_tank)
              => objects[c.row].hours = c.new_hours
        /\ (last.out = "wrote_fuel" /\ c.full_tank)
              => objects[c.row].fuel = c.capacity

\* C4 amended: a full-tank reading stores the new hours written with two
\* fractional digits, and the FuelCapacity it read, whatever the fuel added,
\* the previous fuel and the burned fuel.
C4_FullTankStored ==
    LET c == cm[last.uid]
    IN  /\ (last.out = "wrote_hours" /\ c.full_tank)
              => IsTwoDigitsOf(objects[c.row].hours, c.new_hours)
        /\ (last.out = "wrote_fuel" /\ c.full_tank)
              => objects[c.row].fuel = c.capacity

\* capacity 300, previous fuel 50, new hours 720.004: fuel 300, hours 720
C4_Witness ==
    /\ last.out = "wrote_fuel"
    /\ LET c == cm[last.uid]
       IN  /\ c.full_tank /\ c.capacity = 300000 /\ c.prev_current = 50000
           /\ c.new_hours = 720004 /\ c.fuel_add = 20000
           /\ objects[c.row].fuel = 300000 /\ objects[c.row].hours = 720000

\* The reference computation of C5, in millionths.
RefFuel(c) ==
    LET delta  == IF c.new_hours - c.prev_hours > 0 THEN c.new_hours - c.prev_hours ELSE 0
        burned == delta * c.usage
        x      == c.prev_current * 1000 - burned + c.fuel_add * 1000
        lo     == 0
        hi     == c.capacity * 1000
        capped == IF x > hi THEN hi ELSE x
    IN  IF capped < lo THEN lo ELSE capped

\* C5 as claimed: a reading without full tank stores exactly the new hours
\* and exactly clamp(prev_fuel - delta * usage + fuel_added, 0, capacity).
C5_ReferenceExact ==
    LET c == cm[last.uid]
    IN  /\ (last.out = "wrote_hours" /\ ~c.full_tank)
              => objects[c.row].hours = c.new_hours
        /\ (last.out = "wrote_fuel" /\ ~c.full_tank)
              => objects[c.row].fuel * 1000 = RefFuel(c)

\* C5 amended: it stores the new hours and the reference fuel level, each
\* written with two fractional digits.
C5_ReferenceStored ==
    LET c == cm[last.uid]
    IN  /\ (last.out = "wrote_hours" /\ ~c.full_tank)
              => IsTwoDigitsOf(objects[c.row].hours, c.new_hours)
        /\ (last.out = "wrote_fuel" /\ ~c.full_tank)
              => IsTwoDigitsOfMicro(objects[c.row].fuel, RefFuel(c))

\* (700 h, 300 l, 50 l, 5 l/h), new hours 710, 20 l added: fuel 20, hours 710
C5_Witness ==
    /\ last.out = "wrote_fuel"
    /\ LET c == cm[last.uid]
       IN  /\ ~c.full_tank
           /\ c.prev_hours = 700000 /\ c.capacity = 300000
           /\ c.prev_current = 50000 /\ c.usage = 5000
           /\ c.new_hours = 710000 /\ c.fuel_add = 20000
           /\ c.delta_hours = 10000
           /\ objects[c.row].fuel = 20000 /\ objects[c.row].hours = 710000

\* C6: the monotonicity rule is applied at hours entry, before the fuel is
\* asked, and again at commit against the stored value of that moment: an
\* entry is accepted only with hours not below the stored ones, a rejected
\* entry re-prompts with the stored minimum, and a commit whose accepted hours
\* have fallen below the stored ones is answered with the error, changes
\* neither sheet and leaves the conversation as it was.
C6_MonotonicityCheckedTwice ==
    [][\A u \in Users :
          LET e == BotFind(objects, user_data[u].object_id)
              r == SheetsFind(objects, user_data[u].object_id)
          IN  /\ (conv[u] = "ENTER_ENGINE_HOURS" /\ conv'[u] = "ENTER_FUEL")
                    => /\ e # 0
                       /\ user_data'[u].engine_hours.v >= objects[e].hours
              /\ (/\ conv[u] = "ENTER_ENGINE_HOURS"
                  /\ last'.uid = u /\ last'.out = "reprompt_mono")
                    => /\ conv'[u] = conv[u] /\ user_data' = user_data /\ kb' = kb
                       /\ e # 0 /\ last'.arg = objects[e].hours
              /\ (/\ ConfirmStep(u) /\ FuelParses(u) /\ r # 0
                  /\ user_data[u].engine_hours.set
                  /\ SubmittedHours(u) < objects[r].hours)
                    => /\ last'.out = "mono_error"
                       /\ kb'[u] = kb[u] - 1
                       /\ conv' = conv /\ pc'[u] = "idle"
                       /\ objects' = objects /\ logs' = logs
              /\ (pc[u] = "idle" /\ pc'[u] = "write_hours")
                    => cm'[u].new_hours >= objects[cm'[u].row].hours]_vars

\* 710 was accepted at entry against 700; another user's commit stored 720
\* before this user's commit, which is rejected with the minimum 720
C6_Witness ==
    /\ last.handler = "confirm_full_tank" /\ last.out = "mono_error"
    /\ last.arg = 720000
    /\ user_data[last.uid].engine_hours.v = 710000
    /\ Len(logs) = 1 /\ logs[1].user_id # last.uid
    /\ logs[1].new_hours = 720000

AdminStarts ==
    {"add_object_start", "delete_object_start", "update_capacity_start",
     "update_usage_start"}
AdminStates ==
    {"ENTER_NEW_OBJECT_ID", "ENTER_NEW_CAPACITY", "ENTER_DELETE_OBJECT_ID",
     "ENTER_UPDATE_OBJECT_ID", "ENTER_UPDATE_CAPACITY",
     "ENTER_UPDATE_USAGE_OBJECT_ID", "ENTER_UPDATE_USAGE_VALUE"}

\* C7: a step that changes the Objects sheet and is not a reading commit is a
\* step of a user of ADMINS; a user outside ADMINS who triggers the entry of
\* an admin workflow is denied, stays in no conversation, and gets no session
\* value; such a user is never in a state of an admin workflow.
C7_AdminOnly ==
    [][/\ (objects' # objects /\ last'.handler # "confirm_full_tank")
             => last'.uid \in ADMINS
       /\ \A u \in Users \ ADMINS :
             /\ (last'.uid = u /\ last'.handler \in AdminStarts)
                   => /\ last'.out = "denied"
                      /\ conv'[u] = "END"
                      /\ user_data' = user_data
                      /\ objects' = objects /\ logs' = logs
             /\ conv'[u] \notin AdminStates]_vars

\* user 2, who is not an admin, asked for an admin workflow
C7_Witness ==
    /\ last.uid = 2 /\ last.handler = "add_object_start" /\ last.out = "denied"
    /\ conv[2] = "END" /\ user_data[2] = EmptyUserData

\* u is at a non-terminal state of a workflow: in a conversation, or asked
\* for the full-tank choice (a keyboard of enter_fuel is waiting).
AwaitingFullTankChoice(u) == kb[u] > 0
NonTerminal(u) == conv[u] # "END" \/ AwaitingFullTankChoice(u)

\* C8: a cancel signal at a non-terminal state of any workflow returns the
\* user to idle (no conversation, no choice awaited) and changes neither sheet.
C8_CancelReturnsToIdle ==
    [][\A u \in Users :
          (/\ pc[u] = "idle" /\ NonTerminal(u)
           /\ last'.uid = u /\ last'.handler = "cancel")
          => /\ conv'[u] = "END" /\ ~AwaitingFullTankChoice(u)'
             /\ objects' = objects /\ logs' = logs]_vars

\* The step just taken answered a text that is no number at a state that
\* expects a number.
NonNumericStep(u) ==
    /\ last'.uid = u
    /\ \/ last'.handler = "enter_engine_hours" /\ last'.out = "reprompt_parse"
       \/ last'.handler = "enter_fuel" /\ ~user_data'[u].fuel_added.ok
       \/ /\ last'.handler \in {"save_new_object", "save_update_capacity",
                                "save_update_usage"}
          /\ last'.out = "error"

\* C9: a non-numeric input at a state that expects a number keeps the
\* conversation in that state and changes neither sheet.
C9_NonNumericReprompts ==
    [][\A u \in Users :
          NonNumericStep(u)
          => /\ conv'[u] = conv[u]
             /\ objects' = objects /\ logs' = logs]_vars

LookupHandlers ==
    {"enter_engine_hours", "single_report_show", "confirm_full_tank",
     "confirm_delete_object", "save_update_capacity", "save_update_usage"}

AppendedLog(u) == pc[u] = "append_log" /\ pc'[u] = "idle"

\* Every step leaves the rows of Logs as they were, or adds one row at the end.
LogsAppendOnly ==
    \/ logs' = logs
    \/ /\ Len(logs') = Len(logs) + 1
       /\ \A i \in 1..Len(logs) : logs'[i] = logs[i]

\* C11 as claimed: Logs only grows at its end; a commit appends one row that
\* states the previous hours it read, the new hours and the fuel as they
\* were submitted, their difference (not negative), the full-tank choice and
\* the fuel level it wrote; no other step appends.
C11_LogMirrorsExact ==
    [][/\ LogsAppendOnly
       /\ (logs' # logs) => \E u \in Users : AppendedLog(u)
       /\ \A u \in Users :
             AppendedLog(u) =>
                LET c == cm[u]
                    e == logs'[Len(logs')]
                IN  /\ Len(logs') = Len(logs) + 1
                    /\ e.object_id = c.object_id
                    /\ e.prev_hours = c.prev_hours
                    /\ e.new_hours = c.new_hours
                    /\ e.hours_delta = c.new_hours - c.prev_hours
                    /\ e.hours_delta >= 0
                    /\ e.fuel_added = c.fuel_add
                    /\ e.full_tank = c.full_tank
                    /\ e.calculated_current_fuel = ToStrDotMicro(c.new_current)
                    /\ e.user_id = u]_vars

\* C11 amended: the same, the row stating the new hours, the difference and
\* the fuel added written with two fractional digits; the new hours and the
\* fuel level of the row are the values the commit wrote to Objects.
C11_LogMirrorsStored ==
    [][/\ LogsAppendOnly
       /\ (logs' # logs) => \E u \in Users : AppendedLog(u)
       /\ \A u \in Users :
             AppendedLog(u) =>
                LET c == cm[u]
                    e == logs'[Len(logs')]
                IN  /\ Len(logs') = Len(logs) + 1
                    /\ e.object_id = c.object_id
                    /\ e.prev_hours = c.prev_hours
                    /\ IsTwoDigitsOf(e.new_hours, c.new_hours)
                    /\ IsTwoDigitsOf(e.hours_delta, c.new_hours - c.prev_hours)
                    /\ e.hours_delta >= 0
                    /\ IsTwoDigitsOf(e.fuel_added, c.fuel_add)
                    /\ e.full_tank = c.full_tank
                    /\ e.calculated_current_fuel = ToStrDotMicro(c.new_current)
                    /\ e.user_id = u]_vars

\* a commit of 720.004 h against 700 h: the row states 700, 720, 20
C11_Witness ==
    /\ last.out = "saved" /\ Len(logs) >= 1
    /\ user_data[last.uid].engine_hours.v = 720004
    /\ LET e == logs[Len(logs)]
       IN  /\ e.user_id = last.uid
           /\ e.prev_hours = 700000 /\ e.new_hours = 720000
           /\ e.hours_delta = 20000

\* C12: every row of Objects holds a CurrentFuel between 0 and its
\* FuelCapacity, after every step of every workflow.
C12_FuelBoundInEveryState ==
    \A i \in 1..Len(objects) :
       0 <= objects[i].fuel /\ objects[i].fuel <= objects[i].cap

\* C13: no two rows of Objects carry the same ObjectID.
C13_IdsUnique ==
    \A i, j \in 1..Len(objects) :
       i # j => objects[i].id # objects[j].id

NewReadingStates == {"ENTER_OBJECT_ID", "ENTER_ENGINE_HOURS", "ENTER_FUEL"}

\* The step just taken ended u's New Reading workflow: by the commit, by
\* cancel, or by a lookup that found nothing.
NewReadingEnded(u) ==
    /\ last'.uid = u
    /\ \/ last'.handler = "confirm_full_tank" /\ last'.out \in {"saved", "not_found"}
       \/ /\ last'.handler = "cancel" /\ last'.out = "cancelled"
          /\ conv[u] \in NewReadingStates
       \/ last'.handler = "enter_engine_hours" /\ last'.out = "not_found"

\* user_data[u] holds no value of a New Reading.
ReadingSessionEmpty(u) ==
    /\ user_data[u].object_id = NoId
    /\ ~user_data[u].engine_hours.set
    /\ ~user_data[u].fuel_added.set

\* C14: when a New Reading workflow ends by its commit, by cancel or by a
\* failed lookup, the session holds no object id, no hours and no fuel.
C14_SessionDiscarded ==
    [][\A u \in Users : NewReadingEnded(u) => ReadingSessionEmpty(u)']_vars

\* The step just taken is the read of a commit of u that goes on to write.
CommitStarts(u) == pc[u] = "idle" /\ pc'[u] = "write_hours"

\* C15: a commit writes for the object whose stored hours the committed
\* hours were checked against at entry, with hours and fuel that were
\* entered: the values of one workflow, never the object of one workflow
\* with the hours of another.
C15_CommitOfOneWorkflow ==
    [][\A u \in Users :
          CommitStarts(u)
          => /\ user_data[u].engine_hours.set /\ user_data[u].fuel_added.set
             /\ cm'[u].object_id = hours_for[u]]_vars

\* C16: when a store call of a workflow step fails, the user gets the generic
\* answer and is left in no conversation, with an empty session.
C16_StoreErrorDiscardsSession ==
    [][\A u \in Users :
          (last'.uid = u /\ last'.out = "store_error")
          => /\ conv'[u] = "END"
             /\ user_data'[u] = EmptyUserData]_vars

\* C19: no row of Objects holds a negative FuelCapacity, FuelUsagePerHour or
\* EngineHours.
C19_FieldsNonNegative ==
    \A i \in 1..Len(objects) :
       objects[i].cap >= 0 /\ objects[i].usage >= 0 /\ objects[i].hours >= 0

\* C20: every lookup finds an identifier exactly when a row holds that
\* identifier (compared as trimmed text), at hours entry, in the single
\* report, at commit and in the admin operations alike.
C20_LookupsAgree ==
    [][(last'.handler \in LookupHandlers /\ last'.id # NoId)
          => (last'.out = "not_found" <=> BotFind(objects, last'.id) = 0)]_vars

\* The rows the shortage report listed, and the rows of Objects it must list.
Listed == SelectSeq(sent.text, LAMBDA l : l.kind = "row")
Needy == {i \in 1..Len(objects) : Need(objects[i]) > 0}
ListedAs(id, a) ==
    Cardinality({k \in 1..Len(Listed) : Listed[k].obj = id /\ Listed[k].vals[1] = a})
StatedTotal == sent.text[Len(sent.text)].vals[1]

RECURSIVE SumListed(_)
SumListed(k) == IF k = 0 THEN 0 ELSE Listed[k].vals[1] + SumListed(k - 1)

RECURSIVE SumNeed(_)
SumNeed(i) == IF i = 0 THEN 0 ELSE Need(objects[i]) + SumNeed(i - 1)

\* v (thousandths) is x (thousandths) written with one fractional digit
IsOneDigitOf(v, x) == v % 100 = 0 /\ 2 * (v - x) <= 100 /\ 2 * (x - v) <= 100

\* The shortage report lists the needy objects, each once, by ascending
\* identifier, and lists nothing when there is none.
ShortageListing ==
    /\ (last.out = "report") <=> (Needy # {})
    /\ last.out # "report" => sent = NoText
    /\ last.out = "report" =>
          /\ Len(Listed) = Cardinality(Needy)
          /\ \A k \in 1..Len(Listed) :
                ListedAs(Listed[k].obj, Listed[k].vals[1])
                = Cardinality({i \in Needy :
                                  /\ objects[i].id = Listed[k].obj
                                  /\ Fmt1(Need(objects[i])) = Listed[k].vals[1]})
          /\ \A k \in 1..(Len(Listed) - 1) :
                IdRank(Listed[k].obj) <= IdRank(Listed[k + 1].obj)

\* C17 as claimed: the listing as above, and the total stated is the sum of
\* the amounts listed.
C17_ShortageTotalExact ==
    last.handler = "shortage_report" =>
       /\ ShortageListing
       /\ last.out = "report" => StatedTotal = SumListed(Len(Listed))

\* C17 amended: the listing as above, each amount and the total stated with
\* one fractional digit: the total is the sum of the amounts to full of the
\* listed objects, written with one fractional digit.
C17_ShortageTotalRounded ==
    last.handler = "shortage_report" =>
       /\ ShortageListing
       /\ last.out = "report" =>
             /\ IsOneDigitOf(StatedTotal, SumNeed(Len(objects)))
             /\ \A k \in 1..Len(Listed) :
                   \E i \in Needy : /\ objects[i].id = Listed[k].obj
                                    /\ IsOneDigitOf(Listed[k].vals[1], Need(objects[i]))

\* a sheet out of order with a full object between two needy ones: the
\* first needs 250.04, 07 needs 0.04; listed 07 - 0.0, then 250.0, total 250.1
C17_Witness ==
    /\ last.handler = "shortage_report" /\ last.out = "report"
    /\ Len(objects) = 3
    /\ objects[1].id = MidId /\ Need(objects[1]) = 250040
    /\ Need(objects[2]) = 0
    /\ objects[3].id = "07" /\ Need(objects[3]) = 40
    /\ Len(Listed) = 2
    /\ Listed[1].obj = "07" /\ Listed[1].vals[1] = 0
    /\ Listed[2].obj = MidId /\ Listed[2].vals[1] = 250000
    /\ StatedTotal = 250100

\* The lines of all messages, in the order sent.
RECURSIVE Joined(_)
Joined(msgs) == IF msgs = << >> THEN << >> ELSE msgs[1] \o Joined(Tail(msgs))

\* C18: no message that send_long_text sends is longer than TELEGRAM_MAX_LEN
\* characters, and the messages, joined in order, are the lines of the text.
C18_MessagesWithinBudget ==
    /\ \A k \in 1..Len(sent.msgs) : PayloadLen(sent.msgs[k]) <= TELEGRAM_MAX_LEN
    /\ Joined(sent.msgs) = sent.text

\* ------------------------------------------------------------------ C21
\* The display values of a record, as the claim derives them.
RefClamped(o) ==
    IF o.cap > 0 THEN (IF o.fuel < o.cap THEN o.fuel ELSE o.cap) ELSE o.fuel
RefAmount(o) ==
    IF o.cap - RefClamped(o) > 0 THEN o.cap - RefClamped(o) ELSE 0

IsObjLine(l) == l.kind = "obj"
IsFuelLine(l) == l.kind = "fuel"
IsNeedLine(l) == l.kind = "need"
ReportHandlers == {"report", "single_report_show", "shortage_report"}

\* what a record's fuel line and need line state, to one decimal
StatesRecord(fuel, need, o) ==
    /\ fuel.vals = << Fmt1(RefClamped(o)), Fmt1(o.cap) >>
    /\ need.vals = << Fmt1(RefAmount(o)) >>
    /\ RefAmount(o) >= 0 /\ need.vals[1] >= 0

\* the messages of report: one block per stored row, in store order
FullReportShows ==
    LET lines == Joined(sent.msgs)
        objl == SelectSeq(lines, IsObjLine)
        fuel == SelectSeq(lines, IsFuelLine)
        need == SelectSeq(lines, IsNeedLine)
    IN  /\ Len(objl) = Len(objects)
        /\ Len(fuel) = Len(objects) /\ Len(need) = Len(objects)
        /\ \A i \in 1..Len(objects) :
              /\ objl[i].obj = objects[i].id
              /\ StatesRecord(fuel[i], need[i], objects[i])

\* the message of single_report_show: the record found, with the values
\* that report states for the same record
SingleReportShows ==
    LET lines == Joined(sent.msgs)
        fuel == SelectSeq(lines, IsFuelLine)
        need == SelectSeq(lines, IsNeedLine)
        r == BotFind(objects, last.id)
    IN  /\ r # 0
        /\ Len(fuel) = 1 /\ Len(need) = 1
        /\ StatesRecord(fuel[1], need[1], objects[r])
        /\ fuel[1].vals = ReportBlock(objects[r])[3].vals
        /\ need[1].vals = ReportBlock(objects[r])[4].vals

\* C21: report and single_report_show state, for a record, the same values
\* min(current_fuel, capacity) if capacity > 0 else current_fuel, and
\* max(0, capacity - that) >= 0; report lists every stored row exactly once
\* in store order; a report step leaves the Objects and Logs sheets as they
\* were.
C21_ReportsAgree ==
    [][ /\ last'.handler \in ReportHandlers
            => objects' = objects /\ logs' = logs
        /\ (last'.handler = "report" /\ last'.out = "report")
            => FullReportShows'
        /\ (last'.handler = "single_report_show" /\ last'.out = "report")
            => SingleReportShows' ]_vars

\* report on a sheet with a capacity below zero (50.0 shown as it is, need
\* 0), a level above the capacity (40.0 of 40.0, need 0) and a level with
\* cents (50.0 of 300.0, need 250.0)
C21_Witness ==
    /\ last.handler = "report" /\ last.out = "report"
    /\ Len(objects) = 3
    /\ objects[1] = ReportRow("US0001", 0 - 5000, 50000)
    /\ objects[2] = ReportRow("07", 40000, 50000)
    /\ objects[3] = ReportRow(MidId, 300000, 49960)
    /\ LET lines == Joined(sent.msgs)
       IN  /\ SelectSeq(lines, IsFuelLine)[1].vals = << 50000, 0 - 5000 >>
           /\ SelectSeq(lines, IsFuelLine)[2].vals = << 40000, 40000 >>
           /\ SelectSeq(lines, IsFuelLine)[3].vals = << 50000, 300000 >>
           /\ SelectSeq(lines, IsNeedLine)[1].vals = << 0 >>
           /\ SelectSeq(lines, IsNeedLine)[3].vals = << 250000 >>

\* ------------------------------------------------------------------ C22
WroteFuel(u) == pc[u] = "write_fuel" /\ pc'[u] = "append_log"

\* row r holds the object that a store lookup of id matches
IsTarget(r, id) == r \in 1..Len(objects) /\ Numericise(objects[r].id) = id

\* the step changed nothing but field f of row r
OnlyField(r, f) ==
    /\ Len(objects') = Len(objects)
    /\ \A i \in 1..Len(objects) :
          IF i = r THEN objects'[i] = [objects[i] EXCEPT ![f] = objects'[i][f]]
                   ELSE objects'[i] = objects[i]

StoreStep(h, out) == last'.handler = h /\ last'.out = out

\* a step of one of the five store operations
StoreOperation ==
    \/ \E u \in Users : WroteHours(u) \/ WroteFuel(u)
    \/ StoreStep("save_new_object", "added")
    \/ StoreStep("confirm_delete_object", "deleted")
    \/ StoreStep("save_update_capacity", "updated")
    \/ StoreStep("save_update_usage", "updated")

\* C22: a reading submission changes only EngineHours and CurrentFuel of the
\* target object, update_capacity only its FuelCapacity, update_usage only
\* its FuelUsagePerHour, delete_object removes exactly one row (the matched
\* one), add_object appends one row with hours, fuel and usage zero; every
\* other field and object stays as it was, and no other step changes the
\* Objects sheet.
C22_FrameEffects ==
    [][ /\ \A u \in Users :
              /\ WroteHours(u) =>
                    \E r \in 1..Len(objects) :
                        IsTarget(r, cm[u].object_id) /\ OnlyField(r, "hours")
              /\ WroteFuel(u) =>
                    \E r \in 1..Len(objects) :
                        IsTarget(r, cm[u].object_id) /\ OnlyField(r, "fuel")
        /\ StoreStep("save_update_capacity", "updated") =>
              \E r \in 1..Len(objects) : IsTarget(r, last'.id) /\ OnlyField(r, "cap")
        /\ StoreStep("save_update_usage", "updated") =>
              \E r \in 1..Len(objects) : IsTarget(r, last'.id) /\ OnlyField(r, "usage")
        /\ StoreStep("confirm_delete_object", "deleted") =>
              \E r \in 1..Len(objects) :
                  IsTarget(r, last'.id) /\ objects' = DeleteRow(objects, r)
        /\ StoreStep("save_new_object", "added") =>
              /\ Len(objects') = Len(objects) + 1
              /\ SubSeq(objects', 1, Len(objects)) = objects
              /\ LET new == objects'[Len(objects')]
                 IN  new.id = last'.id /\ new.hours = 0 /\ new.fuel = 0 /\ new.usage = 0
        /\ ~StoreOperation => objects' = objects ]_vars

\* ------------------------------------------------------------------ C23
\* Two users have committed a reading to the same object, which is still in
\* the sheet, and no commit is in flight.
TwoCommitsDone ==
    /\ InFlight = 0
    /\ Len(logs) = 2
    /\ logs[1].user_id # logs[2].user_id
    /\ logs[1].object_id = logs[2].object_id
    /\ SheetsFind(objects, logs[1].object_id) # 0

\* C23: after the commits of two users to the same object, however their
\* store calls interleaved, the object's (EngineHours, CurrentFuel) pair is
\* the pair that one of the two commits computed and logged, never the hours
\* of one with the fuel of the other.
C23_PairOfOneCommit ==
    TwoCommitsDone =>
        LET o == objects[SheetsFind(objects, logs[1].object_id)]
        IN  \E k \in 1..2 :
                /\ logs[k].new_hours = o.hours
                /\ logs[k].calculated_current_fuel = o.fuel

\* ------------------------------------------------------------------ C24
\* C24: once a commit has applied the fuel amount that a user entered, no
\* further full-tank choice of that user, while no new amount has been
\* entered, changes EngineHours or CurrentFuel of an object or appends a log
\* entry.
C24_FuelAppliedOnce ==
    [][ \A u \in Users :
          (applied[u] /\ (WroteHours(u) \/ WroteFuel(u) \/ AppendedLog(u)))
              => objects' = objects /\ logs' = logs ]_vars

\* ------------------------------------------------------------------ C25
\* A store call of u's commit failed.
CommitFailed(u) ==
    /\ pc[u] # "idle" /\ pc'[u] = "idle"
    /\ last'.uid = u /\ last'.out = "store_error"

\* C25: when a store call of a commit fails (the EngineHours write, the
\* CurrentFuel write or the log append), the object's EngineHours and
\* CurrentFuel are both as the commit read them and the log holds no entry of
\* the commit.
C25_CommitAllOrNothing ==
    [][ \A u \in Users :
          CommitFailed(u) =>
              /\ cm[u].row <= Len(objects')
              /\ objects'[cm[u].row].hours = cm[u].prev_hours
              /\ objects'[cm[u].row].fuel = cm[u].prev_current
              /\ \A k \in 1..Len(logs') : logs'[k] # LogRow(u, cm[u]) ]_vars

====
